---- MODULE Spec2Model ----
(***************************************************************************)
(* Model of src/dollar_cost_average.py: CoinbaseDCA.create_order and the   *)
(* signed request builder CoinbaseDCA._request.                            *)
(*                                                                         *)
(* Numbers.  Python floats are modelled as exact decimals, a record        *)
(* [m |-> mantissa, e |-> exponent] standing for m * 10^e, kept in         *)
(* canonical form (no trailing zero in the mantissa) the way a float has   *)
(* one value whatever literal it was parsed from.  round() is Python's      *)
(* round-half-to-even.  Binary representation error of IEEE doubles is not *)
(* modelled.                                                               *)
(*                                                                         *)
(* Strings that are concatenated (the signed message, the endpoint) are    *)
(* sequences of tokens and + is \o.  JSON objects are records, a key       *)
(* lookup is a field access guarded by DOMAIN, and None is the record      *)
(* None below.                                                             *)
(***************************************************************************)
EXTENDS Integers, Sequences, FiniteSets, TLC

----------------------------------------------------------------------------
(* Bounds of the model *)

\* the wall clock (seconds since epoch, as an offset) runs from 0 to MaxClock
MaxClock == 2

----------------------------------------------------------------------------
(* Decimal arithmetic standing for float arithmetic *)

D(m, e) == [m |-> m, e |-> e]

RECURSIVE Pow10(_)
Pow10(k) == IF k <= 0 THEN 1 ELSE 10 * Pow10(k - 1)

\* canonical form of a decimal: the value a float() of that literal has
RECURSIVE Float(_)
Float(a) ==
    IF a.m = 0 THEN D(0, 0)
    ELSE IF a.m % 10 = 0 THEN Float(D(a.m \div 10, a.e + 1))
    ELSE a

MinE(a, b) == IF a.e <= b.e THEN a.e ELSE b.e

\* mantissa of a at exponent e, e <= a.e
Scaled(a, e) == a.m * Pow10(a.e - e)

Lt(a, b)  == Scaled(a, MinE(a, b)) <  Scaled(b, MinE(a, b))
Leq(a, b) == Scaled(a, MinE(a, b)) <= Scaled(b, MinE(a, b))
Geq(a, b) == Leq(b, a)

Neg(a)    == D(-a.m, a.e)
Add(a, b) == Float(D(Scaled(a, MinE(a, b)) + Scaled(b, MinE(a, b)), MinE(a, b)))
Mul(a, b) == Float(D(a.m * b.m, a.e + b.e))

\* the integer nearest to n / d (d > 0), ties to the even integer
RoundHalfEven(n, d) ==
    LET q == n \div d
        r == n % d
    IN  IF 2 * r < d THEN q
        ELSE IF 2 * r > d THEN q + 1
        ELSE IF q % 2 = 0 THEN q ELSE q + 1

\* round(a, ndigits)
Round(a, ndigits) ==
    IF a.e >= -ndigits THEN Float(a)
    ELSE Float(D(RoundHalfEven(a.m, Pow10(-ndigits - a.e)), -ndigits))

\* round(a / b, ndigits) for b # 0
RoundDiv(a, b, ndigits) ==
    LET k   == a.e - b.e + ndigits
        sgn == IF b.m < 0 THEN -1 ELSE 1
        num == sgn * (IF k >= 0 THEN a.m * Pow10(k) ELSE a.m)
        den == sgn * (IF k >= 0 THEN b.m ELSE b.m * Pow10(-k))
    IN  Float(D(RoundHalfEven(num, den), -ndigits))

\* floor(log10(n)) of an integer n >= 1
RECURSIVE FloorLog10(_)
FloorLog10(n) == IF n < 10 THEN 0 ELSE 1 + FloorLog10(n \div 10)

Zero == D(0, 0)
One  == D(1, 0)

----------------------------------------------------------------------------
(* Enumerations and class attributes *)

Side == {"BUY", "SELL"}
Pair == {"BTC-USD", "BTC-USDC", "ETH-USD", "ETH-USDC"}

GET  == "GET"
POST == "POST"

ACCOUNTS == "accounts"
ORDERS   == "orders"
PRODUCTS == "products"

UNAUTHORIZED == 401

BASE_ENDPOINT == "/api/v3/brokerage/"
PRICE_DELTA   == D(2, -3)

None == [none |-> TRUE]

----------------------------------------------------------------------------
(* Inputs: what the caller passes and what the exchange answers *)

\* spend amounts: 0.99, 1, 5, 10, 10.01
QuoteSizes == {D(99, -2), D(1, 0), D(5, 0), D(1, 1), D(1001, -2)}

Product(id, price, qinc, binc, qmin, qmax, bmin, bmax) ==
    [product_id |-> id, price |-> price,
     quote_increment |-> qinc, base_increment |-> binc,
     quote_min_size |-> qmin, quote_max_size |-> qmax,
     base_min_size |-> bmin, base_max_size |-> bmax]

\* reference prices 0.4, 2.5, 125; the exchange quotes positive prices
Prices == {D(4, -1), D(25, -1), D(125, 0)}
\* quote increments 0, 0.01, 0.5, 1, 10; base increments 0, -0.01, 0.0001, 0.01, 1
QuoteIncrements == {D(0, 0), D(1, -2), D(5, -1), D(1, 0), D(1, 1)}
BaseIncrements  == {D(0, 0), D(-1, -2), D(1, -4), D(1, -2), D(1, 0)}
\* base size bounds [0.01, 2] and [1, 5]
BaseBounds == {<<D(1, -2), D(2, 0)>>, <<D(1, 0), D(5, 0)>>}

\* product detail bodies the exchange may answer with; the first is a
\* BTC-like product (price 50000, increments 0.01 and 0.00000001)
ProductBodies(id) ==
    {Product(id, D(5, 4), D(1, -2), D(1, -8), D(1, 0), D(1, 1), D(1, -8), D(1, 1))}
    \cup
    {Product(id, price, qinc, binc, D(100, -2), D(1000, -2), bb[1], bb[2]) :
        price \in Prices, qinc \in QuoteIncrements, binc \in BaseIncrements,
        bb \in BaseBounds}

Listings == {Pair, {"BTC-USD", "ETH-USD"}, {}}

ListBodies == {[products |-> {[product_id |-> id] : id \in L}] : L \in Listings}

ErrorBody == [error |-> "error", message |-> "message"]

OrderBodies == {[success |-> TRUE], [success |-> FALSE]}

\* a response is a status and a parsed body; a 401 may carry any body
Responses(bodies) ==
    {[status |-> 200, data |-> d] : d \in bodies}
    \cup {[status |-> 400, data |-> ErrorBody]}
    \cup {[status |-> UNAUTHORIZED, data |-> d] : d \in bodies \cup {ErrorBody}}

ClientOrderIds == {"uuid-a", "uuid-b"}

Credentials == [key |-> "api_key", secret |-> "api_secret"]

----------------------------------------------------------------------------
(* CoinbaseDCA._request: the signed request and the parsed response *)

\* hmac.new(key, message, sha256).hexdigest(), an uninterpreted digest
HmacSha256Hex(key, message) == [hmac_sha256 |-> message, keyed |-> key]

\* str(int(time.time())) for the clock value now
Timestamp(now) == <<now>>

\* as SignedRequest, but the signed message holds the resource, not the full path
SignedRequest_ResourceSigned(creds, method, resource, body, now) ==
    LET timestamp == Timestamp(now)
        endpoint  == <<BASE_ENDPOINT>> \o resource
        message   == timestamp \o <<method>> \o resource \o body
        signature == HmacSha256Hex(creds.secret, message)
    IN  [method   |-> method,
         endpoint |-> endpoint,
         body     |-> body,
         headers  |-> [accept       |-> "application/json",
                       CB_ACCESS_KEY       |-> creds.key,
                       CB_ACCESS_SIGN      |-> signature,
                       CB_ACCESS_TIMESTAMP |-> timestamp]]

\* lines 112-126: the request _request puts on the wire at time now
SignedRequest(creds, method, resource, body, now) ==
    LET timestamp == Timestamp(now)
        endpoint  == <<BASE_ENDPOINT>> \o resource
        message   == timestamp \o <<method>> \o endpoint \o body
        signature == HmacSha256Hex(creds.secret, message)
    IN  [method   |-> method,
         endpoint |-> endpoint,
         body     |-> body,
         headers  |-> [accept       |-> "application/json",
                       CB_ACCESS_KEY       |-> creds.key,
                       CB_ACCESS_SIGN      |-> signature,
                       CB_ACCESS_TIMESTAMP |-> timestamp]]

\* as RequestResult, without the test of the status
RequestResult_StatusIgnored(res) == res.data

\* lines 132-136: what _request returns for a response
RequestResult(res) ==
    IF res.status = UNAUTHORIZED THEN None ELSE res.data

\* response[key]: the exception a subscript raises, "" when it succeeds
SubscriptError(response, key) ==
    IF response = None THEN "TypeError"
    ELSE IF key \notin DOMAIN response THEN "KeyError"
    ELSE ""

----------------------------------------------------------------------------
(* CoinbaseDCA._get_currency_sigfigs *)

\* line 139: the assertion
IncrementPositive(currency_increment) == Lt(Zero, currency_increment)

\* as get_currency_sigfigs, truncating the logarithm instead of flooring it
get_currency_sigfigs_Truncated(currency_increment) ==
    LET fl == FloorLog10(currency_increment.m) + currency_increment.e
        exact == currency_increment.m = Pow10(FloorLog10(currency_increment.m))
    IN  IF fl < 0 /\ ~exact THEN -(fl + 1) ELSE -fl

\* line 140: -int(math.floor(math.log10(currency_increment)))
get_currency_sigfigs(currency_increment) ==
    -(FloorLog10(currency_increment.m) + currency_increment.e)

----------------------------------------------------------------------------
(* CoinbaseDCA.create_order, lines 67-98: from the product to the order *)

\* line 67
QuoteSizeAtLeastMin(quote_size, product) ==
    Geq(quote_size, Float(product.quote_min_size))

\* as QuoteSizeAtMostMax, with an exclusive bound
QuoteSizeAtMostMax_Exclusive(quote_size, product) ==
    Lt(quote_size, Float(product.quote_max_size))

\* line 68
QuoteSizeAtMostMax(quote_size, product) ==
    Leq(quote_size, Float(product.quote_max_size))

\* line 74
PriceFactor(side) ==
    Add(One, IF side = "BUY" THEN Neg(PRICE_DELTA) ELSE PRICE_DELTA)

\* as PriceAdjusted, rounding the reference price before moving it
PriceAdjusted_RoundedFirst(side, price, quote_max_digits) ==
    Mul(Round(price, quote_max_digits), PriceFactor(side))

\* line 75
PriceAdjusted(side, price, quote_max_digits) ==
    Round(Mul(price, PriceFactor(side)), quote_max_digits)

\* line 80
BaseSizeRounded(quote_size, price_adjusted, base_max_digits) ==
    RoundDiv(quote_size, price_adjusted, base_max_digits)

\* as BaseSizeAtLeastMin, with the assertion dropped
BaseSizeAtLeastMin_Unchecked(base_size_rounded, product) == TRUE

\* line 82
BaseSizeAtLeastMin(base_size_rounded, product) ==
    Geq(base_size_rounded, Float(product.base_min_size))

\* as BaseSizeAtMostMax, with the assertion dropped
BaseSizeAtMostMax_Unchecked(base_size_rounded, product) == TRUE

\* line 83
BaseSizeAtMostMax(base_size_rounded, product) ==
    Leq(base_size_rounded, Float(product.base_max_size))

\* lines 87-98: json.dumps of the order, one token of the message
OrderBody(client_order_id, side, pair, price_adjusted, base_size_rounded) ==
    <<[client_order_id |-> client_order_id,
       side |-> side,
       product_id |-> pair,
       order_configuration |->
          [limit_limit_gtc |->
              [post_only   |-> FALSE,
               limit_price |-> price_adjusted,
               base_size   |-> base_size_rounded]]]>>

Raised(exc, line) == [kind |-> "raised", exc |-> exc, line |-> line, result |-> None]
Returned(value)   == [kind |-> "returned", exc |-> "", line |-> 99, result |-> value]
Running           == [kind |-> "running", exc |-> "", line |-> 0, result |-> None]

\* lines 67-83 on a fetched product: the locals computed and how it ends
Sizing(side, quote_size, product) ==
    LET none == [quote_max_digits |-> <<>>, price_adjusted |-> <<>>,
                 base_max_digits |-> <<>>, base_size_rounded |-> <<>>,
                 outcome |-> Running]
    IN
    IF SubscriptError(product, "quote_min_size") # ""
    THEN [none EXCEPT !.outcome = Raised(SubscriptError(product, "quote_min_size"), 67)]
    ELSE IF ~QuoteSizeAtLeastMin(quote_size, product)
    THEN [none EXCEPT !.outcome = Raised("AssertionError", 67)]
    ELSE IF ~QuoteSizeAtMostMax(quote_size, product)
    THEN [none EXCEPT !.outcome = Raised("AssertionError", 68)]
    ELSE
    LET quote_increment == Float(product.quote_increment) IN
    IF ~IncrementPositive(quote_increment)
    THEN [none EXCEPT !.outcome = Raised("AssertionError", 72)]
    ELSE
    LET quote_max_digits == get_currency_sigfigs(quote_increment)
        price            == Float(product.price)
        price_adjusted   == PriceAdjusted(side, price, quote_max_digits)
        priced == [none EXCEPT !.quote_max_digits = <<quote_max_digits>>,
                               !.price_adjusted = <<price_adjusted>>]
        base_increment   == Float(product.base_increment)
    IN
    IF ~IncrementPositive(base_increment)
    THEN [priced EXCEPT !.outcome = Raised("AssertionError", 79)]
    ELSE
    LET base_max_digits == get_currency_sigfigs(base_increment)
        digits == [priced EXCEPT !.base_max_digits = <<base_max_digits>>]
    IN
    IF price_adjusted.m = 0
    THEN [digits EXCEPT !.outcome = Raised("ZeroDivisionError", 80)]
    ELSE
    LET base_size_rounded == BaseSizeRounded(quote_size, price_adjusted, base_max_digits)
        sized == [digits EXCEPT !.base_size_rounded = <<base_size_rounded>>]
    IN
    IF ~BaseSizeAtLeastMin(base_size_rounded, product)
    THEN [sized EXCEPT !.outcome = Raised("AssertionError", 82)]
    ELSE IF ~BaseSizeAtMostMax(base_size_rounded, product)
    THEN [sized EXCEPT !.outcome = Raised("AssertionError", 83)]
    ELSE sized

----------------------------------------------------------------------------
(* State *)

VARIABLES
    creds,              \* self.creds
    clock,              \* time.time(), whole seconds
    pc,                 \* where create_order stands: "idle", "list_products"
                        \* (line 63), "get_product" (65), "submit" (99), "done"
    args,               \* <<[side, pair, quote_size]>> of the running call
    sent,               \* the requests of this call put on the wire, in order
    statuses,           \* the HTTP status answered to each of them
    listed,             \* <<what list_products returned>>
    product,            \* <<what get_product returned>>
    quote_max_digits,   \* the locals of create_order, <<>> until assigned
    price_adjusted,
    base_max_digits,
    base_size_rounded,
    body,               \* the order body, <<>> until built
    outcome             \* how the call ended

locals == <<listed, product, quote_max_digits, price_adjusted,
            base_max_digits, base_size_rounded, body>>

vars == <<creds, clock, pc, args, sent, statuses, listed, product,
          quote_max_digits, price_adjusted, base_max_digits,
          base_size_rounded, body, outcome>>

Init ==
    /\ creds = Credentials
    /\ clock = 0
    /\ pc = "idle"
    /\ args = <<>>
    /\ sent = <<>>
    /\ statuses = <<>>
    /\ listed = <<>>
    /\ product = <<>>
    /\ quote_max_digits = <<>>
    /\ price_adjusted = <<>>
    /\ base_max_digits = <<>>
    /\ base_size_rounded = <<>>
    /\ body = <<>>
    /\ outcome = Running

----------------------------------------------------------------------------
(* Actions *)

\* time passes
Tick ==
    /\ clock < MaxClock
    /\ clock' = clock + 1
    /\ UNCHANGED <<creds, pc, args, sent, statuses, locals, outcome>>

\* _request: sign, send, note the answer
Exchange(method, resource, payload, res) ==
    /\ sent' = Append(sent, SignedRequest(creds, method, resource, payload, clock))
    /\ statuses' = Append(statuses, res.status)

\* a caller enters create_order(side, pair, quote_size)
create_order(side, pair, quote_size) ==
    /\ pc \in {"idle", "done"}
    /\ pc' = "list_products"
    /\ args' = <<[side |-> side, pair |-> pair, quote_size |-> quote_size]>>
    /\ sent' = <<>>
    /\ statuses' = <<>>
    /\ listed' = <<>>
    /\ product' = <<>>
    /\ quote_max_digits' = <<>>
    /\ price_adjusted' = <<>>
    /\ base_max_digits' = <<>>
    /\ base_size_rounded' = <<>>
    /\ body' = <<>>
    /\ outcome' = Running
    /\ UNCHANGED <<creds, clock>>

\* as PairListed, with the assertion dropped
PairListed_Unchecked(pair, products) == TRUE

\* line 63: the assertion on what list_products returned
PairListed(pair, products) == pair \in products

\* line 63 with lines 101-103: list_products and the assertion on it
list_products(res) ==
    /\ pc = "list_products"
    /\ Exchange(GET, <<PRODUCTS>>, <<>>, res)
    /\ LET response == RequestResult(res)
           err      == SubscriptError(response, "products")
       IN  IF err # ""
           THEN /\ outcome' = Raised(err, 103)
                /\ pc' = "done"
                /\ listed' = listed
           ELSE LET ids == {p.product_id : p \in response.products}
                IN  /\ listed' = <<ids>>
                    /\ IF PairListed(args[1].pair, ids)
                       THEN pc' = "get_product" /\ outcome' = outcome
                       ELSE pc' = "done" /\ outcome' = Raised("AssertionError", 63)
    /\ UNCHANGED <<creds, clock, args, product, quote_max_digits, price_adjusted,
                   base_max_digits, base_size_rounded, body>>

\* line 65 with lines 105-108, then lines 67-98
get_product ==
    /\ pc = "get_product"
    /\ \E res \in Responses(ProductBodies(args[1].pair)),
          client_order_id \in ClientOrderIds :
          /\ Exchange(GET, <<PRODUCTS, "/", args[1].pair>>, <<>>, res)
          /\ LET response == RequestResult(res)
                 sizing   == Sizing(args[1].side, args[1].quote_size, response)
             IN  /\ product' = <<response>>
                 /\ quote_max_digits' = sizing.quote_max_digits
                 /\ price_adjusted' = sizing.price_adjusted
                 /\ base_max_digits' = sizing.base_max_digits
                 /\ base_size_rounded' = sizing.base_size_rounded
                 /\ outcome' = sizing.outcome
                 /\ IF sizing.outcome.kind = "raised"
                    THEN pc' = "done" /\ body' = body
                    ELSE /\ pc' = "submit"
                         /\ body' = OrderBody(client_order_id, args[1].side,
                                              args[1].pair,
                                              sizing.price_adjusted[1],
                                              sizing.base_size_rounded[1])
    /\ UNCHANGED <<creds, clock, args, listed>>

\* as submit_order, submitting again when the answer is a 401
submit_order_Retried(res) ==
    /\ pc = "submit"
    /\ Exchange(POST, <<ORDERS>>, body, res)
    /\ IF res.status = UNAUTHORIZED
       THEN pc' = "submit" /\ outcome' = outcome
       ELSE pc' = "done" /\ outcome' = Returned(RequestResult(res))
    /\ UNCHANGED <<creds, clock, args, locals>>

\* line 99: the order is submitted and its answer returned
submit_order(res) ==
    /\ pc = "submit"
    /\ Exchange(POST, <<ORDERS>>, body, res)
    /\ outcome' = Returned(RequestResult(res))
    /\ pc' = "done"
    /\ UNCHANGED <<creds, clock, args, locals>>

Next ==
    \/ Tick
    \/ \E side \in Side, pair \in Pair, quote_size \in QuoteSizes :
          create_order(side, pair, quote_size)
    \/ \E res \in Responses(ListBodies) : list_products(res)
    \/ get_product
    \/ \E res \in Responses(OrderBodies) : submit_order(res)

Spec == Init /\ [][Next]_vars

----------------------------------------------------------------------------
(* Vocabulary of the properties *)

Requests == 1..Len(sent)

Posted == \E i \in Requests : sent[i].method = POST

Finished == pc = "done"

Failed == Finished /\ outcome.kind = "raised"

\* get_product answered with a product, not None and not an error payload
Fetched == product # <<>> /\ "price" \in DOMAIN product[1]

\* x lies in [10^-s, 10^(1-s)), that is s = -floor(log10(x))
IsSigfigs(s, x) == Leq(D(1, -s), x) /\ Lt(x, D(1, 1 - s))

Abs(a) == IF a.m < 0 THEN Neg(a) ELSE a

\* r is a multiple of 10^-ndigits nearest to the quotient n / d, d # 0
NearestQuotient(r, n, d, ndigits) ==
    /\ r.m = 0 \/ r.e >= -ndigits
    /\ Leq(Mul(D(2, 0), Abs(Add(Mul(r, d), Neg(n)))), Mul(D(1, -ndigits), Abs(d)))

ExpectedRequest(i) ==
    IF i = 1 THEN [method |-> GET, endpoint |-> <<BASE_ENDPOINT, PRODUCTS>>]
    ELSE IF i = 2 THEN [method |-> GET,
                        endpoint |-> <<BASE_ENDPOINT, PRODUCTS, "/", args[1].pair>>]
    ELSE [method |-> POST, endpoint |-> <<BASE_ENDPOINT, ORDERS>>]

----------------------------------------------------------------------------
(* C1 *)

\* C1 as stated: no invocation of create_order sends more than two requests.
C1_AtMostTwoRequests == Len(sent) <= 2

\* C1 amended: an invocation of create_order sends at most three requests,
\* in this order: the product list GET, the product detail GET of the pair,
\* the order POST.
C1_AtMostThreeRequests ==
    /\ Len(sent) <= 3
    /\ \A i \in Requests :
          /\ sent[i].method = ExpectedRequest(i).method
          /\ sent[i].endpoint = ExpectedRequest(i).endpoint

C1_Witness == Finished /\ Len(sent) = 3 /\ outcome.kind = "returned"

----------------------------------------------------------------------------
(* C2 *)

\* C2: once a request of the invocation was answered 401, the call ends by
\* returning None to the caller, never by raising.
C2_UnauthorizedReturnsNone ==
    (Finished /\ \E i \in Requests : statuses[i] = UNAUTHORIZED)
        => (outcome.kind = "returned" /\ outcome.result = None)

----------------------------------------------------------------------------
(* C3 *)

PairUnlisted == listed # <<>> /\ args[1].pair \notin listed[1]

ValidationFails ==
    \/ PairUnlisted
    \/ /\ Fetched
       /\ \/ Lt(args[1].quote_size, product[1].quote_min_size)
          \/ Lt(product[1].quote_max_size, args[1].quote_size)
          \/ Leq(product[1].quote_increment, Zero)
          \/ Leq(product[1].base_increment, Zero)
          \/ /\ base_size_rounded # <<>>
             /\ \/ Lt(base_size_rounded[1], product[1].base_min_size)
                \/ Lt(product[1].base_max_size, base_size_rounded[1])

\* C3: when a validation of create_order fails (pair unlisted, spend amount
\* outside the quote bounds, a non-positive increment, base quantity outside
\* the base bounds) the call ends by raising and no order POST was sent.
C3_ValidationFailureAborts ==
    ValidationFails => (Failed /\ ~Posted /\ body = <<>>)

C3_Witness ==
    /\ Failed
    /\ base_size_rounded # <<>>
    /\ Lt(product[1].base_max_size, base_size_rounded[1])

----------------------------------------------------------------------------
(* C4 *)

\* C4: when the pair is absent from the product list the call is rejected
\* with only the list request sent: no product detail fetched, no adjusted
\* price or base quantity computed, no order built or submitted.
C4_UnlistedPairRejectedFirst ==
    PairUnlisted =>
        /\ Failed
        /\ outcome.exc = "AssertionError" /\ outcome.line = 63
        /\ Len(sent) = 1
        /\ product = <<>>
        /\ quote_max_digits = <<>> /\ price_adjusted = <<>>
        /\ base_max_digits = <<>> /\ base_size_rounded = <<>>
        /\ body = <<>>

C4_Witness == PairUnlisted /\ listed[1] # {} /\ Finished

----------------------------------------------------------------------------
(* C5 *)

MetadataUnauthorized ==
    \E i \in Requests : sent[i].method = GET /\ statuses[i] = UNAUTHORIZED

\* C5: when the product list GET or the product detail GET is answered 401,
\* no order POST is sent in that invocation.
C5_UnauthorizedMetadataNoOrder == MetadataUnauthorized => ~Posted

C5_Witness == Finished /\ Len(sent) = 2 /\ statuses[2] = UNAUTHORIZED

----------------------------------------------------------------------------
(* C6 *)

QuoteSizeRejected == Failed /\ outcome.line \in {67, 68}

\* C6: once the product is fetched, the spend amount passes the check exactly
\* when quote_min_size <= amount <= quote_max_size, both ends included.
C6_QuoteBoundsInclusive ==
    Fetched =>
        (~QuoteSizeRejected <=>
            /\ Leq(product[1].quote_min_size, args[1].quote_size)
            /\ Leq(args[1].quote_size, product[1].quote_max_size))

C6_Witness ==
    /\ Fetched
    /\ Leq(args[1].quote_size, product[1].quote_max_size)
    /\ Leq(product[1].quote_max_size, args[1].quote_size)
    /\ ~QuoteSizeRejected
    /\ Posted

----------------------------------------------------------------------------
(* C7 *)

Unrounded(side, reference) ==
    Mul(reference, IF side = "BUY" THEN D(998, -3) ELSE D(1002, -3))

\* C7: the limit price is the reference price times 0.998 (BUY) or 1.002
\* (SELL), rounded afterwards to sigfigs(quote_increment) decimal places; the
\* unrounded price is strictly below the reference for BUY and strictly above
\* it for SELL; reference 50000 with quote_increment 0.01 gives BUY 49900.
C7_LimitPriceAdjustedThenRounded ==
    price_adjusted # <<>> =>
        LET side      == args[1].side
            reference == product[1].price
            unrounded == Unrounded(side, reference)
        IN  /\ IsSigfigs(quote_max_digits[1], product[1].quote_increment)
            /\ NearestQuotient(price_adjusted[1], unrounded, One, quote_max_digits[1])
            /\ side = "BUY"  => Lt(unrounded, reference)
            /\ side = "SELL" => Lt(reference, unrounded)
            /\ (side = "BUY" /\ Float(reference) = D(5, 4)
                   /\ Float(product[1].quote_increment) = D(1, -2))
                  => price_adjusted[1] = D(499, 2)
            /\ \A i \in Requests : sent[i].method = POST =>
                  sent[i].body[1].order_configuration.limit_limit_gtc.limit_price
                     = price_adjusted[1]

C7_Witness ==
    /\ Posted
    /\ args[1].side = "BUY"
    /\ product[1].price = D(5, 4)
    /\ price_adjusted[1] = D(499, 2)

----------------------------------------------------------------------------
(* C8 *)

\* _get_currency_sigfigs was called on the quote increment: the product is
\* fetched and the spend amount passed lines 67-68
QuoteIncrementEvaluated == Fetched /\ ~QuoteSizeRejected

\* C8: for a positive increment x _get_currency_sigfigs returns
\* -floor(log10(x)) (0.01 gives 2, 0.0001 gives 4, 1 gives 0); for x <= 0 it
\* fails and returns nothing.
C8_Sigfigs ==
    /\ QuoteIncrementEvaluated =>
          LET x == product[1].quote_increment
          IN  IF Lt(Zero, x)
              THEN /\ quote_max_digits # <<>>
                   /\ IsSigfigs(quote_max_digits[1], x)
                   /\ Float(x) = D(1, -2) => quote_max_digits[1] = 2
                   /\ Float(x) = D(1, 0)  => quote_max_digits[1] = 0
              ELSE /\ quote_max_digits = <<>>
                   /\ Failed /\ outcome.exc = "AssertionError" /\ outcome.line = 72
    /\ quote_max_digits # <<>> =>
          LET x == product[1].base_increment
          IN  IF Lt(Zero, x)
              THEN /\ base_max_digits # <<>>
                   /\ IsSigfigs(base_max_digits[1], x)
                   /\ Float(x) = D(1, -4) => base_max_digits[1] = 4
                   /\ Float(x) = D(1, 0)  => base_max_digits[1] = 0
              ELSE /\ base_max_digits = <<>>
                   /\ Failed /\ outcome.exc = "AssertionError" /\ outcome.line = 79

C8_Witness ==
    /\ quote_max_digits = <<1>>
    /\ product[1].quote_increment = D(5, -1)
    /\ base_max_digits = <<4>>

----------------------------------------------------------------------------
(* C9 *)

\* C9: the base_size of every order POST is quote_size / price_adjusted
\* rounded to sigfigs(base_increment) decimal places and lies within
\* [base_min_size, base_max_size] of the product fetched in this invocation;
\* adjusted price 49900, spend 10, base_increment 0.00000001 give 0.0002004.
C9_PostedBaseSize ==
    \A i \in Requests : sent[i].method = POST =>
        LET base_size == sent[i].body[1].order_configuration.limit_limit_gtc.base_size
        IN  /\ Fetched
            /\ IsSigfigs(base_max_digits[1], product[1].base_increment)
            /\ NearestQuotient(base_size, args[1].quote_size, price_adjusted[1],
                               base_max_digits[1])
            /\ Leq(product[1].base_min_size, base_size)
            /\ Leq(base_size, product[1].base_max_size)
            /\ (price_adjusted[1] = D(499, 2) /\ args[1].quote_size = D(1, 1)
                   /\ Float(product[1].base_increment) = D(1, -8))
                  => base_size = D(2004, -7)

C9_Witness ==
    /\ Posted
    /\ price_adjusted = <<D(499, 2)>>
    /\ sent[3].body[1].order_configuration.limit_limit_gtc.base_size = D(2004, -7)

----------------------------------------------------------------------------
(* C10 *)

\* C10: every request sent carries in CB-ACCESS-SIGN the HMAC-SHA256, keyed
\* with the secret, of timestamp + method + full path + body of that very
\* request, the timestamp being the one in CB-ACCESS-TIMESTAMP, read from the
\* clock once, when the request was made.
C10_SignatureCoversRequest ==
    \A i \in Requests :
        LET r == sent[i]
        IN  /\ r.headers.CB_ACCESS_SIGN =
                 HmacSha256Hex(creds.secret,
                    r.headers.CB_ACCESS_TIMESTAMP \o <<r.method>> \o r.endpoint \o r.body)
            /\ Len(r.headers.CB_ACCESS_TIMESTAMP) = 1
            /\ r.headers.CB_ACCESS_TIMESTAMP[1] <= clock
            /\ i > 1 => sent[i - 1].headers.CB_ACCESS_TIMESTAMP[1]
                           <= r.headers.CB_ACCESS_TIMESTAMP[1]
            /\ r.headers.CB_ACCESS_KEY = creds.key

C10_Witness ==
    /\ Len(sent) = 3
    /\ sent[3].body # <<>>
    /\ sent[1].headers.CB_ACCESS_TIMESTAMP # sent[3].headers.CB_ACCESS_TIMESTAMP

====
